---- MODULE Spec2Model ----
(***************************************************************************)
(* mailthon.headers: the Headers dictionary (resent, sender, receivers,    *)
(* prepare) and the content_disposition header generator.                  *)
(*                                                                         *)
(* Representation.                                                         *)
(*   - A Python str is a sequence of one-character strings, so that        *)
(*     joining, quoting and address parsing are computed character by      *)
(*     character.  Header NAMES are kept as TLA+ strings.                   *)
(*   - None is the value None below; it is no legal str.                   *)
(*   - A Headers object (a dict, insertion ordered) is a sequence of       *)
(*     <<name, value>> pairs in insertion order.                           *)
(*   - A MIME message (email.message.Message) is the sequence of its       *)
(*     <<name, value>> header pairs (Message._headers).                    *)
(***************************************************************************)
EXTENDS Integers, Sequences, FiniteSets

VARIABLES
    hdrs,    \* the Headers object under test
    other,   \* a second Headers object (compared with hdrs)
    last,    \* history: name -> value of the latest set not followed by a delete
    mime,    \* the MIME message handed to prepare
    before,  \* history: the message as it was before the latest prepare
    op,      \* the latest operation
    args,    \* its arguments
    ret      \* its return value

vars == <<hdrs, other, last, mime, before, op, args, ret>>

None == <<"None">>

(***************************************************************************)
(* Strings                                                                 *)
(***************************************************************************)
RECURSIVE Flatten(_)
Flatten(ss) == IF ss = <<>> THEN <<>> ELSE Head(ss) \o Flatten(Tail(ss))

RECURSIVE Join(_, _)
\* sep.join(ss)
Join(sep, ss) ==
    IF ss = <<>> THEN <<>>
    ELSE IF Len(ss) = 1 THEN ss[1]
    ELSE ss[1] \o sep \o Join(sep, Tail(ss))

RECURSIVE Replace(_, _, _)
\* s.replace(c, rep) for a one-character c
Replace(s, c, rep) ==
    IF s = <<>> THEN <<>>
    ELSE (IF Head(s) = c THEN rep ELSE <<Head(s)>>) \o Replace(Tail(s), c, rep)

COMMASPACE == <<",", " ">>
SPACE == <<" ">>

(***************************************************************************)
(* dict (the base class of Headers)                                        *)
(***************************************************************************)
\* iteration over the dict: the keys in insertion order
Keys(h) == [i \in 1..Len(h) |-> h[i][1]]

\* key in self
Contains(h, k) == \E i \in 1..Len(h) : h[i][1] = k

FirstIndex(h, k) == CHOOSE i \in 1..Len(h) :
                        /\ h[i][1] = k
                        /\ \A j \in 1..(i - 1) : h[j][1] # k

\* self[key], for a key that is present
GetItem(h, k) == h[FirstIndex(h, k)][2]

\* self.get(key)
Get(h, k) == IF Contains(h, k) THEN GetItem(h, k) ELSE None

\* a faulty store: a new entry is added even when the key is present
DictSetAppend(h, k, v) == Append(h, <<k, v>>)

\* self[key] = value: an existing key keeps its place and takes the value
DictSet(h, k, v) ==
    IF Contains(h, k)
    THEN [i \in 1..Len(h) |-> IF h[i][1] = k THEN <<k, v>> ELSE h[i]]
    ELSE Append(h, <<k, v>>)

\* del self[key], for a key that is present
DictDel(h, k) == SelectSeq(h, LAMBDA e : e[1] # k)

\* a faulty resent: the truth of the value instead of the presence of the key
ResentByValue(h) == Get(h, "Resent-Date") \notin {None, <<>>}

\* Headers.resent
Resent(h) == Contains(h, "Resent-Date")

(***************************************************************************)
(* email.utils.getaddresses, as Headers.receivers uses it                  *)
(* (email._parseaddr.AddrlistClass).  Field values are taken over the      *)
(* alphabet of atom characters, space, comma and angle brackets; the       *)
(* branches of the parser for quoted strings, comments, groups, dots,      *)
(* '@' and domain literals are not reached over this alphabet.             *)
(* Positions are 1-based: pos here is self.pos + 1.                        *)
(***************************************************************************)
LWS == {" "}
Specials == {"<", ">", ","}
AtomEnds == Specials \cup LWS
PhraseEnds == AtomEnds

RECURSIVE GotoNext(_, _)
\* gotonext: the position after the white space at p
GotoNext(f, p) ==
    IF p <= Len(f) /\ f[p] \in LWS THEN GotoNext(f, p + 1) ELSE p

RECURSIVE AtomEnd(_, _, _)
\* getatom: the position after the atom at p
AtomEnd(f, p, ends) ==
    IF p <= Len(f) /\ f[p] \notin ends THEN AtomEnd(f, p + 1, ends) ELSE p

RECURSIVE GetPhraseList(_, _, _)
\* getphraselist: the words from p on, and the position after them
GetPhraseList(f, p, plist) ==
    IF p > Len(f) THEN [plist |-> plist, pos |-> p]
    ELSE IF f[p] \in LWS THEN GetPhraseList(f, p + 1, plist)
    ELSE IF f[p] \in PhraseEnds THEN [plist |-> plist, pos |-> p]
    ELSE LET q == AtomEnd(f, p, PhraseEnds)
         IN  GetPhraseList(f, q, Append(plist, SubSeq(f, p, q - 1)))

IsBlank(s) == \A i \in 1..Len(s) : s[i] \in LWS

\* aslist without a trailing white-space item
PopBlank(aslist) ==
    IF aslist # <<>> /\ IsBlank(aslist[Len(aslist)])
    THEN SubSeq(aslist, 1, Len(aslist) - 1)
    ELSE aslist

RECURSIVE AddrSpecLoop(_, _, _)
AddrSpecLoop(f, p, aslist) ==
    IF p > Len(f) THEN [aslist |-> aslist, pos |-> p]
    ELSE IF f[p] \in AtomEnds THEN [aslist |-> PopBlank(aslist), pos |-> p]
    ELSE LET q  == AtomEnd(f, p, AtomEnds)
             r  == GotoNext(f, q)
             ws == SubSeq(f, q, r - 1)
             a1 == Append(aslist, SubSeq(f, p, q - 1))
         IN  AddrSpecLoop(f, r, IF ws # <<>> THEN Append(a1, ws) ELSE a1)

\* getaddrspec: the addr-spec at p (no '@' follows over this alphabet)
GetAddrSpec(f, p) ==
    LET r == AddrSpecLoop(f, GotoNext(f, p), <<>>)
    IN  [addr |-> Flatten(r.aslist), pos |-> r.pos]

\* getrouteaddr, called with f[p] = "<"
GetRouteAddr(f, p) ==
    LET p1 == GotoNext(f, p + 1)
    IN  IF p1 > Len(f) THEN [addr |-> <<>>, pos |-> p1]
        ELSE IF f[p1] = ">" THEN [addr |-> <<>>, pos |-> p1 + 1]
        ELSE LET r == GetAddrSpec(f, p1)
             IN  [addr |-> r.addr, pos |-> r.pos + 1]

\* getaddress: the (realname, address) pairs of the next address, and the
\* position after it and after the comma that follows it
GetAddress(f, p) ==
    LET ph == GetPhraseList(f, GotoNext(f, p), <<>>)
        p2 == GotoNext(f, ph.pos)
        r  == IF p2 > Len(f)
              THEN [ad  |-> IF ph.plist # <<>> THEN << <<<<>>, ph.plist[1]>> >> ELSE <<>>,
                    pos |-> p2]
              ELSE IF f[p2] = "<"
              THEN LET ra == GetRouteAddr(f, p2)
                   IN  [ad |-> << <<Join(SPACE, ph.plist), ra.addr>> >>, pos |-> ra.pos]
              ELSE IF ph.plist # <<>>
              THEN [ad |-> << <<<<>>, ph.plist[1]>> >>, pos |-> p2]
              ELSE [ad |-> <<>>, pos |-> IF f[p2] \in Specials THEN p2 + 1 ELSE p2]
        p3 == GotoNext(f, r.pos)
    IN  [ad  |-> r.ad,
         pos |-> IF p3 <= Len(f) /\ f[p3] = "," THEN p3 + 1 ELSE p3]

RECURSIVE GetAddrList(_, _, _)
\* getaddrlist: an address that yields nothing counts as ('', '')
GetAddrList(f, p, result) ==
    IF p > Len(f) THEN result
    ELSE LET r == GetAddress(f, p)
         IN  GetAddrList(f, r.pos,
                 IF r.ad # <<>> THEN result \o r.ad
                 ELSE Append(result, <<<<>>, <<>>>>))

\* getaddresses(fieldvalues)
GetAddresses(fieldvalues) == GetAddrList(Join(COMMASPACE, fieldvalues), 1, <<>>)

(***************************************************************************)
(* Headers.sender and Headers.receivers                                    *)
(***************************************************************************)
\* a faulty candidate list: the plain keys are tried after the Resent- ones
SenderKeysFallback(h) ==
    IF Resent(h) THEN <<"Resent-Sender", "Resent-From", "Sender", "From">>
    ELSE <<"Sender", "From">>

\* to_fetch
SenderKeys(h) ==
    IF Resent(h) THEN <<"Resent-Sender", "Resent-From">> ELSE <<"Sender", "From">>

RECURSIVE FirstTruthy(_, _)
\* the first candidate whose value is non-empty
FirstTruthy(h, ks) ==
    IF ks = <<>> THEN None
    ELSE IF Get(h, Head(ks)) \notin {None, <<>>} THEN GetItem(h, Head(ks))
    ELSE FirstTruthy(h, Tail(ks))

RECURSIVE FirstPresent(_, _)
\* for item in to_fetch: if item in self: return self[item]
FirstPresent(h, ks) ==
    IF ks = <<>> THEN None
    ELSE IF Contains(h, Head(ks)) THEN GetItem(h, Head(ks))
    ELSE FirstPresent(h, Tail(ks))

\* a faulty sender: an empty value is passed over
SenderTruthy(h) == FirstTruthy(h, SenderKeys(h))

\* Headers.sender
Sender(h) == FirstPresent(h, SenderKeys(h))

\* a faulty attribute list: Cc is read before To
ReceiverKeysCcFirst(h) ==
    IF Resent(h) THEN <<"Resent-Cc", "Resent-To", "Resent-Bcc">>
    ELSE <<"Cc", "To", "Bcc">>

\* attrs
ReceiverKeys(h) ==
    IF Resent(h) THEN <<"Resent-To", "Resent-Cc", "Resent-Bcc">>
    ELSE <<"To", "Cc", "Bcc">>

\* if f: a str is true when it is not empty, None is false
Truthy(f) == f # None /\ f # <<>>

\* [a[1] for a in pairs]
Addresses(pairs) == [i \in 1..Len(pairs) |-> pairs[i][2]]

\* Headers.receivers
Receivers(h) ==
    LET attrs  == ReceiverKeys(h)
        values == [i \in 1..Len(attrs) |-> Get(h, attrs[i])]
        addrs  == SelectSeq(values, Truthy)
    IN  Addresses(GetAddresses(addrs))

(***************************************************************************)
(* Specification Spec: one Headers object under item assignment and        *)
(* deletion.                                                               *)
(***************************************************************************)
DictNames == {"Resent-Date", "Subject", "Bcc"}
DictValues == {<<>>, <<"x">>, <<"y">>}

Idle == /\ other = <<>>
        /\ mime = <<>>
        /\ before = <<>>

Init ==
    /\ hdrs = <<>>
    /\ last = [n \in DictNames |-> None]
    /\ op = "init"
    /\ args = <<>>
    /\ ret = None
    /\ Idle

\* headers[k] = v
SetItem(k, v) ==
    /\ hdrs' = DictSet(hdrs, k, v)
    /\ last' = [last EXCEPT ![k] = v]
    /\ op' = "set"
    /\ args' = <<k, v>>
    /\ ret' = None
    /\ UNCHANGED <<other, mime, before>>

\* del headers[k]
DelItem(k) ==
    /\ Contains(hdrs, k)
    /\ hdrs' = DictDel(hdrs, k)
    /\ last' = [last EXCEPT ![k] = None]
    /\ op' = "del"
    /\ args' = <<k>>
    /\ ret' = None
    /\ UNCHANGED <<other, mime, before>>

\* del headers[k] for a missing key raises KeyError and changes nothing
DelMissing(k) ==
    /\ ~Contains(hdrs, k)
    /\ op' = "KeyError"
    /\ args' = <<k>>
    /\ ret' = None
    /\ UNCHANGED <<hdrs, last, other, mime, before>>

\* headers.get(k)
GetCall(k) ==
    /\ op' = "get"
    /\ args' = <<k>>
    /\ ret' = Get(hdrs, k)
    /\ UNCHANGED <<hdrs, last, other, mime, before>>

Next ==
    \/ \E k \in DictNames, v \in DictValues : SetItem(k, v)
    \/ \E k \in DictNames : DelItem(k)
    \/ \E k \in DictNames : DelMissing(k)
    \/ \E k \in DictNames : GetCall(k)

Spec == Init /\ [][Next]_vars

Count(h, k) == Cardinality({i \in 1..Len(h) : h[i][1] = k})

\* C6: last write wins.  After any sequence of set and delete operations at
\* most one value is stored per header name, and get(name) is the value of the
\* most recent set of the name when no delete of it followed, None otherwise;
\* a get call returns that value.
LastWriteWins ==
    /\ \A n \in DictNames : Count(hdrs, n) <= 1
    /\ \A n \in DictNames : Get(hdrs, n) = last[n]
    /\ op = "get" => ret = last[args[1]]

\* a name set twice, with another operation in between, holds the latest value
LastWriteWinsWitness ==
    /\ op = "set"
    /\ args = <<"Subject", <<"y">>>>
    /\ Len(hdrs) = 2
    /\ hdrs[1] = <<"Subject", <<"y">>>>
    /\ hdrs[2][1] = "Bcc"

\* C7: resent is true exactly when the key Resent-Date is present, whatever its
\* value (the empty string included).
ResentIffPresent == Resent(hdrs) <=> last["Resent-Date"] # None

\* Resent-Date was just set to the empty string, and resent is true
ResentIffPresentWitness ==
    /\ op = "set"
    /\ args = <<"Resent-Date", <<>>>>
    /\ Resent(hdrs)
    /\ Len(hdrs) = 2

\* C7, the steps: only a set or a delete of Resent-Date changes resent; setting
\* it makes resent true, deleting it makes resent false.
ResentSteps ==
    [][/\ (Resent(hdrs') # Resent(hdrs)) => (op' \in {"set", "del"} /\ args'[1] = "Resent-Date")
       /\ (op' = "set" /\ args'[1] = "Resent-Date") => Resent(hdrs')
       /\ (op' = "del" /\ args'[1] = "Resent-Date") => ~Resent(hdrs')]_vars

(***************************************************************************)
(* Construction: Headers(pairs).  A pair whose value is None stands for a  *)
(* header that is not given.                                               *)
(***************************************************************************)
Given(e) == e[2] # None

MakeHeaders(pairs) == SelectSeq(pairs, Given)

NoHistory == /\ last = <<>>
             /\ mime = <<>>
             /\ before = <<>>

(***************************************************************************)
(* Specification SpecSender: Headers.sender on every Headers object over   *)
(* the sender keys.                                                        *)
(***************************************************************************)
SenderValues == {None, <<>>, <<"x">>, <<"y">>}

InitSender ==
    /\ \E rd \in {None, <<>>, <<"d">>}, s \in SenderValues, f \in SenderValues,
          rs \in SenderValues, rf \in SenderValues :
          hdrs = MakeHeaders(<< <<"From", f>>, <<"Resent-From", rf>>, <<"Sender", s>>,
                                <<"Resent-Sender", rs>>, <<"Resent-Date", rd>> >>)
    /\ other = <<>>
    /\ op = "init"
    /\ args = <<>>
    /\ ret = None
    /\ NoHistory

\* headers.sender
SenderCall ==
    /\ op' = "sender"
    /\ ret' = Sender(hdrs)
    /\ UNCHANGED <<hdrs, other, last, mime, before, args>>

NextSender == SenderCall

SpecSender == InitSender /\ [][NextSender]_vars

\* the value of the first of the two keys that is present, None when neither is
FirstOfTwo(h, k1, k2) ==
    IF \E i \in 1..Len(h) : h[i][1] = k1 THEN Get(h, k1)
    ELSE IF \E i \in 1..Len(h) : h[i][1] = k2 THEN Get(h, k2)
    ELSE None

\* C3: sender returns the value of the first key present (presence decides,
\* not the value being non-empty) among Resent-Sender, Resent-From when
\* Resent-Date is present and among Sender, From otherwise; None when no
\* candidate is present.
SenderFirstPresent ==
    op = "sender" =>
        ret = IF Get(hdrs, "Resent-Date") # None
              THEN FirstOfTwo(hdrs, "Resent-Sender", "Resent-From")
              ELSE FirstOfTwo(hdrs, "Sender", "From")

\* Sender is present with an empty value and From is set: sender returned the
\* empty Sender value
SenderFirstPresentWitness ==
    /\ op = "sender"
    /\ Get(hdrs, "Resent-Date") = None
    /\ Get(hdrs, "Sender") = <<>>
    /\ Get(hdrs, "From") = <<"x">>
    /\ ret = <<>>

(***************************************************************************)
(* Specification SpecReceivers: Headers.receivers on Headers objects over  *)
(* the receiver keys.  The three keys that Resent-Date selects range over  *)
(* AddrValues, the three others over DecoyValues.                          *)
(***************************************************************************)
AddrValues ==
    { None,
      <<>>,                                   \* ""
      <<"a">>,                                \* "a"
      <<"b">>,                                \* "b"
      <<"a", ",", " ", "b">>,                 \* "a, b"
      <<"N", " ", "<", "c", ">">>,            \* "N <c>"
      <<"a", ",">> }                          \* "a,"
DecoyValues == {None, <<"z">>}

InitReceivers ==
    /\ \E rd \in {None, <<>>, <<"d">>},
          t \in AddrValues, c \in AddrValues, b \in AddrValues,
          dt \in DecoyValues, dc \in DecoyValues, db \in DecoyValues :
          hdrs = IF rd = None
                 THEN MakeHeaders(<< <<"Bcc", b>>, <<"Resent-Bcc", db>>, <<"Cc", c>>,
                                     <<"Resent-Cc", dc>>, <<"To", t>>, <<"Resent-To", dt>> >>)
                 ELSE MakeHeaders(<< <<"Bcc", db>>, <<"Resent-Bcc", b>>, <<"Cc", dc>>,
                                     <<"Resent-Cc", c>>, <<"To", dt>>, <<"Resent-To", t>>,
                                     <<"Resent-Date", rd>> >>)
    /\ other = <<>>
    /\ op = "init"
    /\ args = <<>>
    /\ ret = None
    /\ NoHistory

\* headers.receivers
ReceiversCall ==
    /\ op' = "receivers"
    /\ ret' = Receivers(hdrs)
    /\ UNCHANGED <<hdrs, other, last, mime, before, args>>

NextReceivers == ReceiversCall

SpecReceivers == InitReceivers /\ [][NextReceivers]_vars

\* the addresses of one field taken alone; a missing or empty field has none
FieldAddrs(h, k) ==
    IF Get(h, k) = None \/ Get(h, k) = <<>> THEN <<>>
    ELSE Addresses(GetAddresses(<<Get(h, k)>>))

ToCcBcc(h) ==
    IF Get(h, "Resent-Date") # None
    THEN FieldAddrs(h, "Resent-To") \o FieldAddrs(h, "Resent-Cc") \o FieldAddrs(h, "Resent-Bcc")
    ELSE FieldAddrs(h, "To") \o FieldAddrs(h, "Cc") \o FieldAddrs(h, "Bcc")

\* C4 as stated: receivers is the addresses of To, then of Cc, then of Bcc (of
\* the Resent- fields when resent), whatever the field values are.
ReceiversPerFieldAlways == op = "receivers" => ret = ToCcBcc(hdrs)

AtomChar(ch) == ch \notin AtomEnds

IsWord(s) == s # <<>> /\ \A i \in 1..Len(s) : AtomChar(s[i])

Trim(s) ==
    LET idx == {i \in 1..Len(s) : s[i] # " "}
    IN  IF idx = {} THEN <<>>
        ELSE SubSeq(s, CHOOSE i \in idx : \A j \in idx : i <= j,
                       CHOOSE i \in idx : \A j \in idx : i >= j)

\* a bare address, or a display name (words) followed by <address>
IsMailbox(s) ==
    \/ IsWord(s)
    \/ /\ Len(s) >= 3
       /\ s[Len(s)] = ">"
       /\ \E i \in 1..(Len(s) - 2) :
             /\ s[i] = "<"
             /\ IsWord(SubSeq(s, i + 1, Len(s) - 1))
             /\ \A j \in 1..(i - 1) : AtomChar(s[j]) \/ s[j] = " "

RECURSIVE SplitComma(_, _)
\* the pieces of s between commas; cur is the piece being read
SplitComma(s, cur) ==
    IF s = <<>> THEN <<cur>>
    ELSE IF Head(s) = "," THEN <<cur>> \o SplitComma(Tail(s), <<>>)
    ELSE SplitComma(Tail(s), Append(cur, Head(s)))

\* a comma-separated list of mailboxes with no empty element
WellFormedList(s) ==
    LET pieces == SplitComma(s, <<>>)
    IN  \A i \in 1..Len(pieces) : IsMailbox(Trim(pieces[i]))

WellFormedField(h, k) ==
    Get(h, k) = None \/ Get(h, k) = <<>> \/ WellFormedList(Get(h, k))

\* C4, amended: when every field read is missing, empty or a well-formed
\* address list, receivers is the addresses of To, then of Cc, then of Bcc (of
\* Resent-To, Resent-Cc, Resent-Bcc when resent), each field's addresses in
\* their order, duplicates kept, Bcc included; a missing or empty field
\* contributes nothing.
ReceiversPerField ==
    (/\ op = "receivers"
     /\ \A i \in 1..3 : WellFormedField(hdrs, ReceiverKeys(hdrs)[i]))
    => ret = ToCcBcc(hdrs)

\* To holds two addresses, Cc repeats one of them, Bcc has a display name:
\* receivers returned all four in field order
ReceiversPerFieldWitness ==
    /\ op = "receivers"
    /\ Get(hdrs, "Resent-Date") = None
    /\ Get(hdrs, "To") = <<"a", ",", " ", "b">>
    /\ Get(hdrs, "Cc") = <<"a">>
    /\ Get(hdrs, "Bcc") = <<"N", " ", "<", "c", ">">>
    /\ ret = << <<"a">>, <<"b">>, <<"a">>, <<"c">> >>

(***************************************************************************)
(* Specification SpecResent: two Headers objects that hold the same        *)
(* Resent-Sender, Resent-From, Resent-To and Resent-Bcc entries and differ *)
(* in Resent-Date and in the plain Sender, From, To and Bcc entries;       *)
(* sender and receivers are read from both.                                *)
(***************************************************************************)
ResentNames == {"Resent-Sender", "Resent-From", "Resent-To", "Resent-Cc", "Resent-Bcc"}
PlainNames == {"Sender", "From", "To", "Cc", "Bcc"}

InitResent ==
    /\ \E rs \in {None, <<"r">>}, rf \in {None, <<"q">>},
          rt \in {None, <<"c">>}, rb \in {None, <<"N", " ", "<", "d", ">">>} :
          /\ \E rd \in {None, <<>>, <<"1">>},
                sn \in {None, <<"s">>}, fr \in {None, <<"f">>},
                t \in {None, <<"a">>}, b \in {None, <<"b">>} :
                hdrs = MakeHeaders(<< <<"From", fr>>, <<"Resent-From", rf>>,
                                      <<"Sender", sn>>, <<"Resent-Sender", rs>>,
                                      <<"To", t>>, <<"Resent-To", rt>>,
                                      <<"Bcc", b>>, <<"Resent-Bcc", rb>>,
                                      <<"Resent-Date", rd>> >>)
          /\ \E rd \in {None, <<"1">>, <<"2">>},
                sn \in {None, <<"t">>}, fr \in {None, <<"g">>},
                t \in {None, <<"b", ",", " ", "e">>}, b \in {None, <<"a">>} :
                other = MakeHeaders(<< <<"Resent-Date", rd>>,
                                       <<"Resent-Bcc", rb>>, <<"Bcc", b>>,
                                       <<"Resent-To", rt>>, <<"To", t>>,
                                       <<"Resent-Sender", rs>>, <<"Sender", sn>>,
                                       <<"Resent-From", rf>>, <<"From", fr>> >>)
    /\ op = "init"
    /\ args = <<>>
    /\ ret = None
    /\ NoHistory

\* headers.sender of both objects
SenderBoth ==
    /\ op' = "sender"
    /\ ret' = <<Sender(hdrs), Sender(other)>>
    /\ UNCHANGED <<hdrs, other, last, mime, before, args>>

\* headers.receivers of both objects
ReceiversBoth ==
    /\ op' = "receivers"
    /\ ret' = <<Receivers(hdrs), Receivers(other)>>
    /\ UNCHANGED <<hdrs, other, last, mime, before, args>>

NextResent == SenderBoth \/ ReceiversBoth

SpecResent == InitResent /\ [][NextResent]_vars

Range(s) == {s[i] : i \in 1..Len(s)}

AddrsOf(h, names) == UNION {Range(FieldAddrs(h, k)) : k \in names}

\* C5: Resent- headers take full precedence.  Two Headers objects that both
\* hold Resent-Date and agree on the Resent- sender and receiver keys have the
\* same sender and the same receivers, whatever they hold under Sender, From,
\* To, Cc and Bcc.  With Resent-Date and neither Resent-Sender nor Resent-From,
\* sender is None; with Resent-Date, receivers holds no address found only in
\* To, Cc or Bcc.
ResentPrecedence ==
    /\ (/\ op \in {"sender", "receivers"}
        /\ Get(hdrs, "Resent-Date") # None
        /\ Get(other, "Resent-Date") # None
        /\ \A k \in ResentNames : Get(hdrs, k) = Get(other, k))
       => ret[1] = ret[2]
    /\ (/\ op = "sender"
        /\ Get(hdrs, "Resent-Date") # None
        /\ Get(hdrs, "Resent-Sender") = None
        /\ Get(hdrs, "Resent-From") = None)
       => ret[1] = None
    /\ (op = "receivers" /\ Get(hdrs, "Resent-Date") # None)
       => Range(ret[1]) \cap (AddrsOf(hdrs, PlainNames) \ AddrsOf(hdrs, ResentNames)) = {}

\* both objects are resent without Resent-Sender and Resent-From, one has
\* Sender and From, the other a different From: sender was None for both
ResentPrecedenceWitness ==
    /\ op = "sender"
    /\ Get(hdrs, "Resent-Date") = <<>>
    /\ Get(other, "Resent-Date") = <<"2">>
    /\ Get(hdrs, "Resent-Sender") = None
    /\ Get(hdrs, "Resent-From") = None
    /\ Get(hdrs, "Sender") = <<"s">>
    /\ Get(hdrs, "From") = <<"f">>
    /\ Get(other, "From") = <<"g">>
    /\ Get(hdrs, "Resent-To") = <<"c">>
    /\ Get(hdrs, "To") = <<"a">>
    /\ ret = <<None, None>>

(***************************************************************************)
(* The MIME message: email.message.Message, whose item deletion and item   *)
(* assignment prepare calls.  Header names are compared ignoring case.     *)
(***************************************************************************)
PrepNames == {"Subject", "subject", "Bcc", "Resent-Bcc"}
PrepValues == {<<"u">>, <<"w">>}

\* name.lower(), on PrepNames (a name without capitals is its own lower case)
Lower(name) ==
    CASE name = "Subject" -> "subject"
      [] name = "Bcc" -> "bcc"
      [] name = "Resent-Bcc" -> "resent-bcc"
      [] OTHER -> name

\* del mime[name]: every occurrence goes, a missing header is no error
DelHeader(m, name) == SelectSeq(m, LAMBDA e : Lower(e[1]) # Lower(name))

\* mime[name] = val: the header is appended
SetHeader(m, name, val) == Append(m, <<name, val>>)

(***************************************************************************)
(* Headers.prepare                                                         *)
(***************************************************************************)
\* a faulty test: Resent-Bcc is not skipped
SkippedBccOnly(key) == key = "Bcc"

\* if key == 'Bcc' or key == 'Resent-Bcc': continue
Skipped(key) == key = "Bcc" \/ key = "Resent-Bcc"

\* faulty loop bodies: the header is set before the old ones are deleted; the
\* old ones are not deleted; the deletion comes before the Bcc test
PrepareKeySetFirst(m, key, val) ==
    IF Skipped(key) THEN m ELSE DelHeader(SetHeader(m, key, val), key)

PrepareKeyNoDel(m, key, val) ==
    IF Skipped(key) THEN m ELSE SetHeader(m, key, val)

PrepareKeyDelFirst(m, key, val) ==
    IF Skipped(key) THEN DelHeader(m, key) ELSE SetHeader(DelHeader(m, key), key, val)

\* the body of the loop, for one key
PrepareKey(m, key, val) ==
    IF Skipped(key) THEN m ELSE SetHeader(DelHeader(m, key), key, val)

RECURSIVE PrepareFrom(_, _, _)
\* for key in self, from the i-th key on
PrepareFrom(h, i, m) ==
    IF i > Len(h) THEN m
    ELSE PrepareFrom(h, i + 1, PrepareKey(m, h[i][1], GetItem(h, h[i][1])))

\* the message after self.prepare(mime)
PrepareMsg(h, m) == PrepareFrom(h, 1, m)

(***************************************************************************)
(* Specification SpecPrepare: a Headers object is filled, other code puts  *)
(* headers on the message, and prepare is applied, any number of times in  *)
(* any order.                                                              *)
(***************************************************************************)
MaxMime == 2

InitPrepare ==
    /\ hdrs = <<>>
    /\ other = <<>>
    /\ last = <<>>
    /\ mime = <<>>
    /\ before = <<>>
    /\ op = "init"
    /\ args = <<>>
    /\ ret = None

\* headers[k] = v
PutHeader(k, v) ==
    /\ hdrs' = DictSet(hdrs, k, v)
    /\ op' = "set"
    /\ args' = <<>>
    /\ before' = <<>>
    /\ UNCHANGED <<other, last, mime, ret>>

\* del headers[k]
DropHeader(k) ==
    /\ Contains(hdrs, k)
    /\ hdrs' = DictDel(hdrs, k)
    /\ op' = "del"
    /\ args' = <<>>
    /\ before' = <<>>
    /\ UNCHANGED <<other, last, mime, ret>>

\* other code: mime[k] = v
MimeSet(k, v) ==
    /\ Len(mime) < MaxMime
    /\ mime' = SetHeader(mime, k, v)
    /\ op' = "mime_set"
    /\ args' = <<>>
    /\ before' = <<>>
    /\ UNCHANGED <<hdrs, other, last, ret>>

IsPrepare(o) == o \in {"prepare", "prepare_again"}

\* headers.prepare(mime); args keeps the Headers object as it was at the call
Prepare ==
    /\ mime' = PrepareMsg(hdrs, mime)
    /\ before' = mime
    /\ args' = <<hdrs>>
    /\ op' = IF IsPrepare(op) THEN "prepare_again" ELSE "prepare"
    /\ UNCHANGED <<hdrs, other, last, ret>>

NextPrepare ==
    \/ \E k \in PrepNames, v \in PrepValues : PutHeader(k, v)
    \/ \E k \in PrepNames : DropHeader(k)
    \/ \E k \in PrepNames, v \in PrepValues : MimeSet(k, v)
    \/ Prepare

SpecPrepare == InitPrepare /\ [][NextPrepare]_vars

\* the headers of m named exactly n, in order
Named(m, n) == SelectSeq(m, LAMBDA e : e[1] = n)

\* the headers of m whose name is n up to letter case, in order
NamedAnyCase(m, n) == SelectSeq(m, LAMBDA e : Lower(e[1]) = Lower(n))

BccNames == {"Bcc", "Resent-Bcc"}

\* C1: prepare writes no header named exactly Bcc or Resent-Bcc onto the
\* message, also when both keys are in the HeaderSet: the headers of either
\* name are those the message had, and a message that carried neither name
\* before prepare carries neither after it.
PrepareWritesNoBcc ==
    IsPrepare(op) =>
        /\ \A n \in BccNames : Named(mime, n) = Named(before, n) \/ Named(mime, n) = <<>>
        /\ (\A n \in BccNames : Named(before, n) = <<>>)
           => (\A n \in BccNames : Named(mime, n) = <<>>)

\* Bcc, Resent-Bcc and Subject are all in the HeaderSet, the message carried
\* no Bcc header: prepare wrote the Subject alone
PrepareWritesNoBccWitness ==
    /\ op = "prepare"
    /\ Contains(hdrs, "Bcc")
    /\ Contains(hdrs, "Resent-Bcc")
    /\ Get(hdrs, "Subject") = <<"u">>
    /\ before = << <<"subject", <<"w">>>> >>
    /\ mime = << <<"Subject", <<"u">>>> >>

\* C2 as stated: after prepare, every key of the HeaderSet other than Bcc and
\* Resent-Bcc occurs exactly once on the message, with the HeaderSet's value.
PrepareExactlyOneAlways ==
    IsPrepare(op) =>
        \A i \in 1..Len(hdrs) :
            hdrs[i][1] \notin BccNames => Named(mime, hdrs[i][1]) = <<hdrs[i]>>

\* no later key of the HeaderSet, Bcc and Resent-Bcc apart, is the i-th key
\* up to letter case
LastOfItsCase(h, i) ==
    \A j \in (i + 1)..Len(h) :
        h[j][1] \in BccNames \/ Lower(h[j][1]) # Lower(h[i][1])

\* C2, amended: after prepare, every key k of the HeaderSet other than Bcc and
\* Resent-Bcc that is the last key, in iteration order, among the keys equal
\* to it up to letter case, is carried by the message exactly once, with the
\* HeaderSet's value, and the message has no other header of that name in any
\* letter case; whatever the message held under k before.
PrepareExactlyOne ==
    IsPrepare(op) =>
        \A i \in 1..Len(hdrs) :
            (hdrs[i][1] \notin BccNames /\ LastOfItsCase(hdrs, i))
            => NamedAnyCase(mime, hdrs[i][1]) = <<hdrs[i]>>

\* the message carried Subject twice, the HeaderSet has Subject: after
\* prepare the message carries it once, with the HeaderSet's value
PrepareExactlyOneWitness ==
    /\ op = "prepare"
    /\ before = << <<"Subject", <<"u">>>>, <<"Subject", <<"w">>>> >>
    /\ hdrs = << <<"Subject", <<"w">>>> >>
    /\ mime = << <<"Subject", <<"w">>>> >>

\* the key of entry e is a key prepare writes, compared exactly
WrittenExact(h, e) == \E i \in 1..Len(h) : h[i][1] \notin BccNames /\ h[i][1] = e[1]

\* the same, compared up to letter case, as the message compares names
Written(h, e) ==
    \E i \in 1..Len(h) : h[i][1] \notin BccNames /\ Lower(h[i][1]) = Lower(e[1])

\* C9 as stated: prepare leaves the HeaderSet unchanged and leaves unchanged
\* every header of the message whose name is not a key of the HeaderSet, or
\* is Bcc or Resent-Bcc.
PrepareFrameExact ==
    IsPrepare(op) =>
        /\ hdrs = args[1]
        /\ SelectSeq(mime, LAMBDA e : ~WrittenExact(hdrs, e))
           = SelectSeq(before, LAMBDA e : ~WrittenExact(hdrs, e))

\* C9, amended: prepare leaves the HeaderSet unchanged and leaves unchanged,
\* in number, value and relative order, every header of the message whose
\* name equals, up to letter case, no key of the HeaderSet other than Bcc and
\* Resent-Bcc; a Bcc or Resent-Bcc header the message carried stays when no
\* such key equals its name up to letter case.
PrepareFrame ==
    IsPrepare(op) =>
        /\ hdrs = args[1]
        /\ SelectSeq(mime, LAMBDA e : ~Written(hdrs, e))
           = SelectSeq(before, LAMBDA e : ~Written(hdrs, e))

\* the message carried Bcc and Subject, the HeaderSet has Bcc and Subject
\* with other values: the message keeps its Bcc, and the HeaderSet its own
PrepareFrameWitness ==
    /\ op = "prepare"
    /\ before = << <<"Bcc", <<"u">>>>, <<"Subject", <<"u">>>> >>
    /\ hdrs = << <<"Bcc", <<"w">>>>, <<"Subject", <<"w">>>> >>
    /\ mime = << <<"Bcc", <<"u">>>>, <<"Subject", <<"w">>>> >>

\* C10: prepare is idempotent: a second prepare in a row, the HeaderSet not
\* modified in between, leaves the message as the first one left it, the
\* order of its headers included.
PrepareIdempotent == op = "prepare_again" => mime = before

\* prepare ran twice on a message with a header it keeps and headers it
\* rewrites
PrepareIdempotentWitness ==
    /\ op = "prepare_again"
    /\ Keys(hdrs) = <<"subject", "Bcc", "Subject">>
    /\ Len(mime) = 2
    /\ mime[1][1] = "Resent-Bcc"
    /\ mime[2][1] = "Subject"

(***************************************************************************)
(* content_disposition and email.utils.quote                               *)
(***************************************************************************)
BACKSLASH == "\\"
DQUOTE == "\""

\* a faulty quote: the double quotes are escaped before the backslashes
QuoteQuotesFirst(str) ==
    Replace(Replace(str, DQUOTE, <<BACKSLASH, DQUOTE>>), BACKSLASH, <<BACKSLASH, BACKSLASH>>)

\* email.utils.quote: str.replace('\\', '\\\\').replace('"', '\\"')
Quote(str) ==
    Replace(Replace(str, BACKSLASH, <<BACKSLASH, BACKSLASH>>), DQUOTE, <<BACKSLASH, DQUOTE>>)

\* '; filename="'
FilenamePrefix == <<";", " ", "f", "i", "l", "e", "n", "a", "m", "e", "=", "\"">>

\* list(content_disposition(disposition, filename)):
\* 'Content-Disposition', then '%s; filename="%s"' % (disposition, quote(filename))
ContentDisposition(disposition, filename) ==
    <<"Content-Disposition", disposition \o FilenamePrefix \o Quote(filename) \o <<DQUOTE>>>>

(***************************************************************************)
(* Specification SpecDisposition: content_disposition on every disposition *)
(* and every file name of at most MaxLen characters, and on "my file.txt". *)
(***************************************************************************)
MaxLen == 3
FileChars == {"f", ".", " ", DQUOTE, BACKSLASH}
Attachment == <<"a", "t", "t", "a", "c", "h", "m", "e", "n", "t">>
Inline == <<"i", "n", "l", "i", "n", "e">>
MyFileTxt == <<"m", "y", " ", "f", "i", "l", "e", ".", "t", "x", "t">>
FileNames == UNION {[1..n -> FileChars] : n \in 0..MaxLen} \cup {MyFileTxt}

InitDisposition ==
    /\ \E d \in {Attachment, Inline}, f \in FileNames : args = <<d, f>>
    /\ op = "init"
    /\ ret = None
    /\ hdrs = <<>>
    /\ other = <<>>
    /\ NoHistory

ContentDispositionCall ==
    /\ op = "init"
    /\ op' = "content_disposition"
    /\ ret' = ContentDisposition(args[1], args[2])
    /\ UNCHANGED <<hdrs, other, last, mime, before, args>>

NextDisposition == ContentDispositionCall

SpecDisposition == InitDisposition /\ [][NextDisposition]_vars

\* URL quoting of one character of FileChars (urllib.parse.quote)
PercentChar(c) ==
    CASE c = " " -> <<"%", "2", "0">>
      [] c = DQUOTE -> <<"%", "2", "2">>
      [] c = BACKSLASH -> <<"%", "5", "C">>
      [] OTHER -> <<c>>

UrlQuote(s) == Flatten([i \in 1..Len(s) |-> PercentChar(s[i])])

\* C8 as stated: the value is disposition + '; filename="' + Q(filename) + '"'
\* with Q the URL (percent-style) quoting of the file name.
ContentDispositionUrlQuoted ==
    op = "content_disposition" =>
        ret = <<"Content-Disposition",
                args[1] \o FilenamePrefix \o UrlQuote(args[2]) \o <<DQUOTE>>>>

\* one character of a quoted string: a backslash goes before a backslash and
\* before a double quote
EscapedChar(c) == IF c \in {BACKSLASH, DQUOTE} THEN <<BACKSLASH, c>> ELSE <<c>>

\* C8, amended: content_disposition(disposition, filename) produces the name
\* 'Content-Disposition' followed by disposition + '; filename="' +
\* Q(filename) + '"', where Q puts a backslash before every backslash and
\* every double quote of the file name and changes no other character (a
\* space stays a space): "my file.txt" yields
\* 'attachment; filename="my file.txt"'.
ContentDispositionQuoted ==
    op = "content_disposition" =>
        ret = <<"Content-Disposition",
                args[1] \o FilenamePrefix
                        \o Flatten([i \in 1..Len(args[2]) |-> EscapedChar(args[2][i])])
                        \o <<DQUOTE>>>>

\* content_disposition("attachment", "my file.txt") was called
ContentDispositionQuotedWitness ==
    /\ op = "content_disposition"
    /\ args = <<Attachment, MyFileTxt>>
    /\ ret[2] = <<"a", "t", "t", "a", "c", "h", "m", "e", "n", "t", ";", " ", "f", "i", "l", "e", "n", "a", "m", "e", "=", "\"", "m", "y", " ", "f", "i", "l", "e", ".", "t", "x", "t", "\"">>
====
